---- MODULE Spec2Model ----
(***************************************************************************)
(* Movie-Review-Api: the request handlers of reviews/views.py as a state   *)
(* machine over the Movie and Review tables.                               *)
(*                                                                         *)
(* Text values (titles, query parameters) are sequences of one-character   *)
(* strings.  A response is a record: the handler that produced it, the     *)
(* acting user, the path id, the HTTP status and the pagination envelope.  *)
(* An exception that no handler and no framework layer catches ends the    *)
(* request with status 500.                                                *)
(***************************************************************************)
EXTENDS Integers, Sequences, FiniteSets, TLC

VARIABLES movies, reviews, nextMovieId, nextReviewId, last

vars == <<movies, reviews, nextMovieId, nextReviewId, last>>

\* ---------------------------------------------------------------- bounds
\* Movie rows ever created (ids 1..MaxMovies).
MaxMovies == 2
\* Review rows ever created (ids 1..MaxReviews).
MaxReviews == 1
\* Review rows of the stores the list requests are run against.
MaxListReviews == 3
\* Review rows of the stores the pagination requests are run against.
MaxPageReviews == 101

\* ------------------------------------------------------------- constants
\* ReviewPagination.page_size
page_size == 10
\* ReviewPagination.max_page_size
max_page_size == 100

\* ------------------------------------------------------------ population
Users == {"admin", "alice", "bob"}
\* is_staff
Staff == {"admin"}
\* request.user of a request without valid credentials
Anon == "anon"
Actors == Users \cup {Anon}
\* A field the request body does not carry.
NoVal == "none"
\* A primary key no row has (also: the field is missing from the body).
NoId == 0

\* ----------------------------------------------------------- permissions
IsAuthenticated(actor) == actor \in Users

IsAdminUser(actor) == actor \in Staff

\* NotAuthenticated -> 401, PermissionDenied -> 403
Denied(actor) == IF actor = Anon THEN 401 ELSE 403

\* ------------------------------------------------------------- responses
\* The last request and its response.  body: the review fields the request
\* body carried; query: the query parameters (<<>> and "" stand for a
\* parameter the request does not carry); count, next, previous, results:
\* the pagination envelope (next and previous are page numbers, 0 for null;
\* results are the ids of the returned rows).
NoBody == [movie |-> NoId, user |-> NoVal, rating |-> 0]

NoQuery == [movie_title |-> <<>>, rating |-> <<>>, ordering |-> "",
            page |-> <<>>, page_size |-> <<>>]

Resp(op, actor, id, status) ==
    [op |-> op, actor |-> actor, id |-> id, body |-> NoBody, query |-> NoQuery,
     status |-> status, count |-> 0, next |-> 0, previous |-> 0,
     results |-> <<>>]

RespB(op, actor, id, body, status) ==
    [Resp(op, actor, id, status) EXCEPT !.body = body]

\* ---------------------------------------------------------------- tables
MovieIds == {movies[i].id : i \in DOMAIN movies}

ReviewIds == {reviews[i].id : i \in DOMAIN reviews}

\* Movie.objects.get(id=...) finds a row
MovieExists(id) == id \in MovieIds

MovieRow(id) == CHOOSE m \in {movies[i] : i \in DOMAIN movies} : m.id = id

ReviewExists(id) == id \in ReviewIds

ReviewRow(id) == CHOOSE r \in {reviews[i] : i \in DOMAIN reviews} : r.id = id

\* Review.objects.get(id=review_id, user=request.user) finds a row
OwnedReviewExists(id, actor) == ReviewExists(id) /\ ReviewRow(id).user = actor

\* --------------------------------------------------------- serializers
\* MovieSerializer(data=...).is_valid(): title is required and not blank
MovieSerializer_is_valid(data) == data.title # <<>>

\* ReviewSerializer(data=...).is_valid(): movie and user are primary keys of
\* existing rows, rating is an integer in 1..5
ReviewSerializer_is_valid(data) ==
    /\ data.movie \in MovieIds
    /\ data.user \in Users
    /\ data.rating \in 1..5

\* serializer.save() of a new Movie
SaveNewMovie(data) ==
    /\ nextMovieId <= MaxMovies
    /\ movies' = Append(movies, [id |-> nextMovieId, title |-> data.title])
    /\ nextMovieId' = nextMovieId + 1
    /\ UNCHANGED <<reviews, nextReviewId>>

\* serializer.save() of an existing Movie
SaveMovie(id, data) ==
    /\ movies' = [i \in DOMAIN movies |->
                    IF movies[i].id = id
                    THEN [movies[i] EXCEPT !.title = data.title]
                    ELSE movies[i]]
    /\ UNCHANGED <<reviews, nextMovieId, nextReviewId>>

\* movie.delete(): the movie's reviews go with it
DeleteMovie(id) ==
    /\ movies' = SelectSeq(movies, LAMBDA m : m.id # id)
    /\ reviews' = SelectSeq(reviews, LAMBDA r : r.movie # id)
    /\ UNCHANGED <<nextMovieId, nextReviewId>>

\* serializer.save() of a new Review with the given movie and user
SaveNewReview(movie, user, rating) ==
    /\ nextReviewId <= MaxReviews
    /\ reviews' = Append(reviews, [id |-> nextReviewId, movie |-> movie,
                                   user |-> user, rating |-> rating,
                                   created_at |-> nextReviewId])
    /\ nextReviewId' = nextReviewId + 1
    /\ UNCHANGED <<movies, nextMovieId>>

\* serializer.save() of an existing Review
SaveReview(id, data) ==
    /\ reviews' = [i \in DOMAIN reviews |->
                     IF reviews[i].id = id
                     THEN [reviews[i] EXCEPT !.movie = data.movie,
                                             !.user = data.user,
                                             !.rating = data.rating]
                     ELSE reviews[i]]
    /\ UNCHANGED <<movies, nextMovieId, nextReviewId>>

\* review.delete()
DeleteReview(id) ==
    /\ reviews' = SelectSeq(reviews, LAMBDA r : r.id # id)
    /\ UNCHANGED <<movies, nextMovieId, nextReviewId>>

Unchanged == UNCHANGED <<movies, reviews, nextMovieId, nextReviewId>>

\* ----------------------------------------------------- movie controllers
MovieListCreateView_get(actor) ==
    /\ Unchanged
    /\ IF ~IsAdminUser(actor)
       THEN last' = Resp("MovieListCreateView.get", actor, NoId, Denied(actor))
       ELSE last' = [Resp("MovieListCreateView.get", actor, NoId, 200)
                       EXCEPT !.count = Len(movies),
                              !.results = [i \in DOMAIN movies |-> movies[i].id]]

MovieListCreateView_post(actor, data) ==
    IF ~IsAdminUser(actor)
    THEN /\ last' = Resp("MovieListCreateView.post", actor, NoId, Denied(actor))
         /\ Unchanged
    ELSE IF MovieSerializer_is_valid(data)
    THEN /\ SaveNewMovie(data)
         /\ last' = Resp("MovieListCreateView.post", actor, nextMovieId, 201)
    ELSE /\ last' = Resp("MovieListCreateView.post", actor, NoId, 400)
         /\ Unchanged

MovieDetailView_get(actor, movie_id) ==
    /\ Unchanged
    /\ IF ~IsAdminUser(actor)
       THEN last' = Resp("MovieDetailView.get", actor, movie_id, Denied(actor))
       ELSE IF ~MovieExists(movie_id)
       THEN \* Movie.DoesNotExist is not caught
            last' = Resp("MovieDetailView.get", actor, movie_id, 500)
       ELSE last' = Resp("MovieDetailView.get", actor, movie_id, 200)

MovieDetailView_put(actor, movie_id, data) ==
    IF ~IsAdminUser(actor)
    THEN /\ last' = Resp("MovieDetailView.put", actor, movie_id, Denied(actor))
         /\ Unchanged
    ELSE IF ~MovieExists(movie_id)
    THEN /\ last' = Resp("MovieDetailView.put", actor, movie_id, 500)
         /\ Unchanged
    ELSE IF MovieSerializer_is_valid(data)
    THEN /\ SaveMovie(movie_id, data)
         /\ last' = Resp("MovieDetailView.put", actor, movie_id, 200)
    ELSE /\ last' = Resp("MovieDetailView.put", actor, movie_id, 400)
         /\ Unchanged

MovieDetailView_delete(actor, movie_id) ==
    IF ~IsAdminUser(actor)
    THEN /\ last' = Resp("MovieDetailView.delete", actor, movie_id, Denied(actor))
         /\ Unchanged
    ELSE IF ~MovieExists(movie_id)
    THEN /\ last' = Resp("MovieDetailView.delete", actor, movie_id, 500)
         /\ Unchanged
    ELSE /\ DeleteMovie(movie_id)
         /\ last' = Resp("MovieDetailView.delete", actor, movie_id, 200)

\* MovieViewSet: ModelViewSet with permission_classes = [IsAuthenticated]
MovieViewSet_list(actor) ==
    /\ Unchanged
    /\ IF ~IsAuthenticated(actor)
       THEN last' = Resp("MovieViewSet.list", actor, NoId, Denied(actor))
       ELSE last' = [Resp("MovieViewSet.list", actor, NoId, 200)
                       EXCEPT !.count = Len(movies),
                              !.results = [i \in DOMAIN movies |-> movies[i].id]]

MovieViewSet_retrieve(actor, pk) ==
    /\ Unchanged
    /\ IF ~IsAuthenticated(actor)
       THEN last' = Resp("MovieViewSet.retrieve", actor, pk, Denied(actor))
       ELSE IF ~MovieExists(pk)
       THEN last' = Resp("MovieViewSet.retrieve", actor, pk, 404)
       ELSE last' = Resp("MovieViewSet.retrieve", actor, pk, 200)

MovieViewSet_create(actor, data) ==
    IF ~IsAuthenticated(actor)
    THEN /\ last' = Resp("MovieViewSet.create", actor, NoId, Denied(actor))
         /\ Unchanged
    ELSE IF MovieSerializer_is_valid(data)
    THEN /\ SaveNewMovie(data)
         /\ last' = Resp("MovieViewSet.create", actor, nextMovieId, 201)
    ELSE /\ last' = Resp("MovieViewSet.create", actor, NoId, 400)
         /\ Unchanged

MovieViewSet_update(actor, pk, data) ==
    IF ~IsAuthenticated(actor)
    THEN /\ last' = Resp("MovieViewSet.update", actor, pk, Denied(actor))
         /\ Unchanged
    ELSE IF ~MovieExists(pk)
    THEN /\ last' = Resp("MovieViewSet.update", actor, pk, 404)
         /\ Unchanged
    ELSE IF MovieSerializer_is_valid(data)
    THEN /\ SaveMovie(pk, data)
         /\ last' = Resp("MovieViewSet.update", actor, pk, 200)
    ELSE /\ last' = Resp("MovieViewSet.update", actor, pk, 400)
         /\ Unchanged

MovieViewSet_destroy(actor, pk) ==
    IF ~IsAuthenticated(actor)
    THEN /\ last' = Resp("MovieViewSet.destroy", actor, pk, Denied(actor))
         /\ Unchanged
    ELSE IF ~MovieExists(pk)
    THEN /\ last' = Resp("MovieViewSet.destroy", actor, pk, 404)
         /\ Unchanged
    ELSE /\ DeleteMovie(pk)
         /\ last' = Resp("MovieViewSet.destroy", actor, pk, 204)

\* ---------------------------------------------------- review controllers
\* ReviewViewSet: ModelViewSet with permission_classes = [IsAuthenticated];
\* the serializer takes movie, user and rating from the body.
ReviewViewSet_create(actor, data) ==
    IF ~IsAuthenticated(actor)
    THEN /\ last' = RespB("ReviewViewSet.create", actor, NoId, data, Denied(actor))
         /\ Unchanged
    ELSE IF ReviewSerializer_is_valid(data)
    THEN /\ SaveNewReview(data.movie, data.user, data.rating)
         /\ last' = RespB("ReviewViewSet.create", actor, nextReviewId, data, 201)
    ELSE /\ last' = RespB("ReviewViewSet.create", actor, NoId, data, 400)
         /\ Unchanged

ReviewViewSet_update(actor, pk, data) ==
    IF ~IsAuthenticated(actor)
    THEN /\ last' = RespB("ReviewViewSet.update", actor, pk, data, Denied(actor))
         /\ Unchanged
    ELSE IF ~ReviewExists(pk)
    THEN /\ last' = RespB("ReviewViewSet.update", actor, pk, data, 404)
         /\ Unchanged
    ELSE IF ReviewSerializer_is_valid(data)
    THEN /\ SaveReview(pk, data)
         /\ last' = RespB("ReviewViewSet.update", actor, pk, data, 200)
    ELSE /\ last' = RespB("ReviewViewSet.update", actor, pk, data, 400)
         /\ Unchanged

ReviewViewSet_destroy(actor, pk) ==
    IF ~IsAuthenticated(actor)
    THEN /\ last' = Resp("ReviewViewSet.destroy", actor, pk, Denied(actor))
         /\ Unchanged
    ELSE IF ~ReviewExists(pk)
    THEN /\ last' = Resp("ReviewViewSet.destroy", actor, pk, 404)
         /\ Unchanged
    ELSE /\ DeleteReview(pk)
         /\ last' = Resp("ReviewViewSet.destroy", actor, pk, 204)

\* ReviewListCreateView.post without data["user"] = request.user.id
ReviewListCreateView_post_KeepsBodyUser(actor, movie_id, body) ==
    IF ~IsAuthenticated(actor)
    THEN /\ last' = RespB("ReviewListCreateView.post", actor, movie_id, body, Denied(actor))
         /\ Unchanged
    ELSE LET data == [body EXCEPT !.movie = movie_id]
         IN  IF ReviewSerializer_is_valid(data)
             THEN /\ SaveNewReview(data.movie, data.user, data.rating)
                  /\ last' = [RespB("ReviewListCreateView.post", actor, movie_id, body, 201)
                                EXCEPT !.results = <<nextReviewId>>]
             ELSE /\ last' = RespB("ReviewListCreateView.post", actor, movie_id, body, 400)
                  /\ Unchanged

\* data["movie"] = movie_id; data["user"] = request.user.id
ReviewListCreateView_post(actor, movie_id, body) ==
    IF ~IsAuthenticated(actor)
    THEN /\ last' = RespB("ReviewListCreateView.post", actor, movie_id, body, Denied(actor))
         /\ Unchanged
    ELSE LET data == [body EXCEPT !.movie = movie_id, !.user = actor]
         IN  IF ReviewSerializer_is_valid(data)
             THEN /\ SaveNewReview(data.movie, data.user, data.rating)
                  /\ last' = [RespB("ReviewListCreateView.post", actor, movie_id, body, 201)
                                EXCEPT !.results = <<nextReviewId>>]
             ELSE /\ last' = RespB("ReviewListCreateView.post", actor, movie_id, body, 400)
                  /\ Unchanged

\* Review.objects.get(id=review_id, user=request.user), not guarded
ReviewDetailView_put(actor, review_id, data) ==
    IF ~IsAuthenticated(actor)
    THEN /\ last' = RespB("ReviewDetailView.put", actor, review_id, data, Denied(actor))
         /\ Unchanged
    ELSE IF ~OwnedReviewExists(review_id, actor)
    THEN \* Review.DoesNotExist is not caught
         /\ last' = RespB("ReviewDetailView.put", actor, review_id, data, 500)
         /\ Unchanged
    ELSE IF ReviewSerializer_is_valid(data)
    THEN /\ SaveReview(review_id, data)
         /\ last' = RespB("ReviewDetailView.put", actor, review_id, data, 200)
    ELSE /\ last' = RespB("ReviewDetailView.put", actor, review_id, data, 400)
         /\ Unchanged

ReviewDetailView_delete(actor, review_id) ==
    IF ~IsAuthenticated(actor)
    THEN /\ last' = Resp("ReviewDetailView.delete", actor, review_id, Denied(actor))
         /\ Unchanged
    ELSE IF ~OwnedReviewExists(review_id, actor)
    THEN /\ last' = Resp("ReviewDetailView.delete", actor, review_id, 500)
         /\ Unchanged
    ELSE /\ DeleteReview(review_id)
         /\ last' = Resp("ReviewDetailView.delete", actor, review_id, 200)

\* the movie lookup is guarded; serializer.save(movie=movie, user=request.user)
CreateMovieReviewView_post(actor, movie_id, body) ==
    IF ~IsAuthenticated(actor)
    THEN /\ last' = RespB("CreateMovieReviewView.post", actor, movie_id, body, Denied(actor))
         /\ Unchanged
    ELSE IF ~MovieExists(movie_id)
    THEN /\ last' = RespB("CreateMovieReviewView.post", actor, movie_id, body, 404)
         /\ Unchanged
    ELSE IF ReviewSerializer_is_valid(body)
    THEN /\ SaveNewReview(movie_id, actor, body.rating)
         /\ last' = [RespB("CreateMovieReviewView.post", actor, movie_id, body, 201)
                       EXCEPT !.results = <<nextReviewId>>]
    ELSE /\ last' = RespB("CreateMovieReviewView.post", actor, movie_id, body, 400)
         /\ Unchanged

\* ------------------------------------------------------------------ text
\* str.lower() on the letters used in titles
ToLower(c) ==
    CASE c = "U" -> "u"
      [] c = "P" -> "p"
      [] c = "S" -> "s"
      [] c = "H" -> "h"
      [] OTHER -> c

Lower(s) == [i \in DOMAIN s |-> ToLower(s[i])]

\* movie__title__icontains: sub occurs in title, letter case ignored
IContains(title, sub) ==
    \E i \in 0..(Len(title) - Len(sub)) :
        SubSeq(Lower(title), i + 1, i + Len(sub)) = Lower(sub)

Digits == {"0", "1", "2", "3", "4", "5", "6", "7", "8", "9"}

DigitVal(c) ==
    CASE c = "0" -> 0 [] c = "1" -> 1 [] c = "2" -> 2 [] c = "3" -> 3
      [] c = "4" -> 4 [] c = "5" -> 5 [] c = "6" -> 6 [] c = "7" -> 7
      [] c = "8" -> 8 [] c = "9" -> 9

RECURSIVE LStrip(_)
LStrip(s) == IF s # <<>> /\ Head(s) = " " THEN LStrip(Tail(s)) ELSE s

RECURSIVE RStrip(_)
RStrip(s) ==
    IF s # <<>> /\ s[Len(s)] = " " THEN RStrip(SubSeq(s, 1, Len(s) - 1)) ELSE s

RECURSIVE DecimalValue(_)
DecimalValue(d) ==
    IF d = <<>> THEN 0
    ELSE 10 * DecimalValue(SubSeq(d, 1, Len(d) - 1)) + DigitVal(d[Len(d)])

\* int(text): surrounding blanks are dropped, one sign is allowed, the rest
\* must be one or more decimal digits; anything else raises ValueError.
ParseInt(text) ==
    LET t == RStrip(LStrip(text))
        signed == t # <<>> /\ Head(t) \in {"+", "-"}
        d == IF signed THEN Tail(t) ELSE t
    IN  IF d = <<>> \/ \E i \in DOMAIN d : d[i] \notin Digits
        THEN [ok |-> FALSE, val |-> 0]
        ELSE [ok |-> TRUE,
              val |-> IF Head(t) = "-" THEN 0 - DecimalValue(d)
                      ELSE DecimalValue(d)]

\* ------------------------------------------------------------ pagination
Min(a, b) == IF a <= b THEN a ELSE b

\* get_page_size without the max_page_size cutoff
get_page_size_NoCutoff(query) ==
    LET p == ParseInt(query.page_size)
    IN  IF query.page_size = <<>> \/ ~p.ok \/ p.val <= 0
        THEN page_size
        ELSE p.val

\* PageNumberPagination.get_page_size: the page_size parameter when it is a
\* positive integer, cut off at max_page_size; else the default page_size
get_page_size(query) ==
    LET p == ParseInt(query.page_size)
    IN  IF query.page_size = <<>> \/ ~p.ok \/ p.val <= 0
        THEN page_size
        ELSE Min(p.val, max_page_size)

\* Paginator.num_pages (allow_empty_first_page, no orphans)
num_pages(count, per_page) ==
    IF count = 0 THEN 1 ELSE (count + per_page - 1) \div per_page

\* PageNumberPagination.get_page_number and Paginator.validate_number:
\* 0 stands for InvalidPage (not an integer, below 1, above num_pages)
page_number(query, count, per_page) ==
    LET p == ParseInt(query.page)
    IN  IF query.page = <<>> THEN 1
        ELSE IF query.page = <<"l", "a", "s", "t">>
        THEN num_pages(count, per_page)
        ELSE IF ~p.ok \/ p.val < 1 \/ p.val > num_pages(count, per_page)
        THEN 0
        ELSE p.val

\* Paginator.validate_number rejects the page parameter before it needs the
\* number of rows: not an integer, or below 1
RejectedBeforeCount(query) ==
    /\ query.page # <<>>
    /\ query.page # <<"l", "a", "s", "t">>
    /\ (~ParseInt(query.page).ok \/ ParseInt(query.page).val < 1)

\* paginate_queryset and get_paginated_response over the rows of a queryset;
\* InvalidPage is raised as NotFound
Paginated(op, actor, id, query, rows) ==
    LET per == get_page_size(query)
        count == Len(rows)
        n == page_number(query, count, per)
        ids == [i \in DOMAIN rows |-> rows[i].id]
    IN  IF n = 0
        THEN [Resp(op, actor, id, 404) EXCEPT !.query = query]
        ELSE [Resp(op, actor, id, 200) EXCEPT
                !.query = query,
                !.count = count,
                !.next = IF n < num_pages(count, per) THEN n + 1 ELSE 0,
                !.previous = IF n > 1 THEN n - 1 ELSE 0,
                !.results = SubSeq(ids, (n - 1) * per + 1, Min(n * per, count))]

\* ------------------------------------------------------------ review lists
\* The rating branch without the 1..5 range test
RatingFilter_NoRangeCheck(rows, query) ==
    LET p == ParseInt(query.rating)
    IN  IF query.rating = <<>> THEN [response |-> FALSE, rows |-> rows]
        ELSE IF p.ok
        THEN [response |-> FALSE,
              rows |-> SelectSeq(rows, LAMBDA r : r.rating = p.val)]
        ELSE [response |-> TRUE, rows |-> <<>>]

\* The rating branch shared by the two list handlers: the filter applied to
\* rows, or the 400 Response the branch returns.
RatingFilter(rows, query) ==
    LET p == ParseInt(query.rating)
    IN  IF query.rating = <<>> THEN [response |-> FALSE, rows |-> rows]
        ELSE IF p.ok /\ 1 <= p.val /\ p.val <= 5
        THEN [response |-> FALSE,
              rows |-> SelectSeq(rows, LAMBDA r : r.rating = p.val)]
        ELSE [response |-> TRUE, rows |-> <<>>]

\* The title filter with contains in place of icontains
TitleFilter_CaseSensitive(rows, query) ==
    IF query.movie_title = <<>> THEN rows
    ELSE SelectSeq(rows, LAMBDA r :
             \E i \in 0..(Len(MovieRow(r.movie).title) - Len(query.movie_title)) :
                 SubSeq(MovieRow(r.movie).title, i + 1,
                        i + Len(query.movie_title)) = query.movie_title)

\* queryset.filter(movie__title__icontains=movie_title), when movie_title is given
TitleFilter(rows, query) ==
    IF query.movie_title = <<>> THEN rows
    ELSE SelectSeq(rows, LAMBDA r :
             IContains(MovieRow(r.movie).title, query.movie_title))

\* ReviewViewSet.get_queryset: a queryset, or a Response object in its place
ReviewViewSet_get_queryset(query) ==
    RatingFilter(TitleFilter(reviews, query), query)

\* ReviewViewSet.list: get_queryset() goes to the paginator as it is (no
\* filter_queryset, so the ordering and search backends never run).  Given a
\* Response for a queryset, the paginator still rejects a bad page number
\* first, and else fails with TypeError on counting it.
ReviewViewSet_list(actor, query) ==
    /\ Unchanged
    /\ IF ~IsAuthenticated(actor)
       THEN last' = [Resp("ReviewViewSet.list", actor, NoId, Denied(actor))
                       EXCEPT !.query = query]
       ELSE LET queryset == ReviewViewSet_get_queryset(query)
            IN  IF queryset.response
                THEN last' = [Resp("ReviewViewSet.list", actor, NoId,
                                   IF RejectedBeforeCount(query)
                                   THEN 404 ELSE 500)
                                EXCEPT !.query = query]
                ELSE last' = Paginated("ReviewViewSet.list", actor, NoId,
                                       query, queryset.rows)

\* ReviewListCreateView.get: the reviews of the path movie, filtered; a bad
\* rating returns the 400 Response before the paginator is built
ReviewListCreateView_get(actor, movie_id, query) ==
    /\ Unchanged
    /\ IF ~IsAuthenticated(actor)
       THEN last' = [Resp("ReviewListCreateView.get", actor, movie_id, Denied(actor))
                       EXCEPT !.query = query]
       ELSE LET scoped == SelectSeq(reviews, LAMBDA r : r.movie = movie_id)
                filtered == RatingFilter(TitleFilter(scoped, query), query)
            IN  IF filtered.response
                THEN last' = [Resp("ReviewListCreateView.get", actor, movie_id, 400)
                                EXCEPT !.query = query]
                ELSE last' = Paginated("ReviewListCreateView.get", actor,
                                       movie_id, query, filtered.rows)

\* ------------------------------------------------------- request inputs
\* Authenticated users; requests without credentials end 401 before any handler.
Callers == Users

MovieBodies == [title : {<<>>, <<"U", "p">>}]

\* Bodies naming a movie and an author, a body without movie and user, and a
\* body with a rating outside 1..5.
ReviewBodies ==
    {[movie |-> 1, user |-> "alice", rating |-> 5],
     [movie |-> 2, user |-> "bob", rating |-> 5],
     [movie |-> NoId, user |-> NoVal, rating |-> 5],
     [movie |-> 1, user |-> "bob", rating |-> 0]}

\* ------------------------------------------------------------------ CRUD
Init ==
    /\ movies = <<>>
    /\ reviews = <<>>
    /\ nextMovieId = 1
    /\ nextReviewId = 1
    /\ last = Resp("none", Anon, NoId, 0)

Next ==
    \E actor \in Callers :
        \/ MovieListCreateView_get(actor)
        \/ MovieViewSet_list(actor)
        \/ \E data \in MovieBodies :
              \/ MovieListCreateView_post(actor, data)
              \/ MovieViewSet_create(actor, data)
        \/ \E id \in 1..MaxMovies :
              \/ MovieDetailView_get(actor, id)
              \/ MovieDetailView_delete(actor, id)
              \/ MovieViewSet_retrieve(actor, id)
              \/ MovieViewSet_destroy(actor, id)
              \/ \E data \in MovieBodies :
                    \/ MovieDetailView_put(actor, id, data)
                    \/ MovieViewSet_update(actor, id, data)
              \/ \E body \in ReviewBodies :
                    \/ ReviewListCreateView_post(actor, id, body)
                    \/ CreateMovieReviewView_post(actor, id, body)
        \/ \E data \in ReviewBodies : ReviewViewSet_create(actor, data)
        \/ \E id \in 1..MaxReviews :
              \/ ReviewViewSet_destroy(actor, id)
              \/ ReviewDetailView_delete(actor, id)
              \/ \E data \in ReviewBodies :
                    \/ ReviewViewSet_update(actor, id, data)
                    \/ ReviewDetailView_put(actor, id, data)

Spec == Init /\ [][Next]_vars

\* ------------------------------------------------------------ list inputs
Query(t, r, o, p, ps) ==
    [movie_title |-> t, rating |-> r, ordering |-> o, page |-> p,
     page_size |-> ps]

ListTitles == {<<"U", "p">>, <<"S", "U", "P">>, <<"H", "i">>}

TitleParams == {<<"u", "P">>, <<"h">>}

\* <<title, movie_title parameter>>: the titles that contain the parameter,
\* letter case ignored
TitleMatchTable ==
    {<< <<"U", "p">>, <<"u", "P">> >>,
     << <<"S", "U", "P">>, <<"u", "P">> >>,
     << <<"H", "i">>, <<"h">> >>}

\* <<text, value>>: texts int() accepts with a value in 1..5
GoodRatings ==
    {<< <<"5">>, 5 >>, << <<"2">>, 2 >>, << <<"+", "5">>, 5 >>,
     << <<" ", "2", " ">>, 2 >>, << <<"0", "5">>, 5 >>}

GoodRatingParams == {g[1] : g \in GoodRatings}

ExpectedRating(text) == (CHOOSE g \in GoodRatings : g[1] = text)[2]

\* texts int() rejects ("abc", "5.0", " ") and integers outside 1..5
NonIntegerRatingParams == {<<"a", "b", "c">>, <<"5", ".", "0">>, <<" ">>}

OutOfRangeRatingParams == {<<"0">>, <<"6">>, <<"-", "1">>}

BadRatingParams == NonIntegerRatingParams \cup OutOfRangeRatingParams

Orderings == {"rating", "-rating", "created_at", "-created_at"}

\* <<text, value>>: page_size texts that are positive integers
GoodPageSizes ==
    {<< <<"1">>, 1 >>, << <<"2">>, 2 >>, << <<"7">>, 7 >>,
     << <<"1", "0", "0">>, 100 >>, << <<"1", "0", "1">>, 101 >>,
     << <<"5", "0", "0">>, 500 >>}

\* page_size texts the paginator ignores
BadPageSizeParams == {<<"0">>, <<"x">>, <<"-", "5">>}

\* The number of rows a page may hold under the page_size parameter.
ExpectedPageSize(text) ==
    IF \E g \in GoodPageSizes : g[1] = text
    THEN LET v == (CHOOSE g \in GoodPageSizes : g[1] = text)[2]
         IN  IF v > max_page_size THEN max_page_size ELSE v
    ELSE page_size

\* <<text, value>>: page texts that are positive integers
GoodPages ==
    {<< <<"1">>, 1 >>, << <<"2">>, 2 >>, << <<"3">>, 3 >>,
     << <<"1", "1">>, 11 >>, << <<"1", "2">>, 12 >>,
     << <<"1", "0", "3">>, 103 >>}

BadPageParams == {<<"0">>, <<"x">>}

\* The page a request asks for; 0 when it names none by number.
ExpectedPage(text) ==
    IF text = <<>> THEN 1
    ELSE IF \E g \in GoodPages : g[1] = text
    THEN (CHOOSE g \in GoodPages : g[1] = text)[2]
    ELSE 0

\* The last page of total rows at per rows a page.
LastPage(total, per) ==
    CHOOSE k \in 1..(total + 1) :
        k * per >= total /\ (k = 1 \/ (k - 1) * per < total)

FilterQueries ==
    {Query(t, r, "", p, ps) :
        t \in {<<>>} \cup TitleParams,
        r \in {<<>>} \cup GoodRatingParams \cup BadRatingParams,
        p \in {<<>>, <<"2">>},
        ps \in {<<>>, <<"1">>}}

OrderingQueries ==
    {Query(<<>>, r, o, p, ps) :
        r \in {<<>>, <<"5">>},
        o \in Orderings,
        p \in {<<>>, <<"2">>},
        ps \in {<<>>, <<"2">>}}

PageQueries ==
    {Query(<<>>, <<>>, "", p, ps) :
        p \in {<<>>, <<"l", "a", "s", "t">>} \cup {g[1] : g \in GoodPages}
                 \cup BadPageParams,
        ps \in {<<>>} \cup {g[1] : g \in GoodPageSizes} \cup BadPageSizeParams}

\* ------------------------------------------------------ list requests
\* One list request against a store of two movies and up to MaxListReviews
\* reviews with ratings 2 and 5.
InitList ==
    /\ \E t1 \in ListTitles, t2 \in {<<"H", "i">>} :
          movies = <<[id |-> 1, title |-> t1], [id |-> 2, title |-> t2]>>
    /\ \E n \in 0..MaxListReviews :
          \E f \in [1..n -> (1..2) \X {2, 5}] :
             reviews = [i \in 1..n |->
                          [id |-> i, movie |-> f[i][1],
                           user |-> IF i % 2 = 1 THEN "alice" ELSE "bob",
                           rating |-> f[i][2], created_at |-> i]]
    /\ nextMovieId = 3
    /\ nextReviewId = Len(reviews) + 1
    /\ last = Resp("none", Anon, NoId, 0)

NextList ==
    \/ \E query \in FilterQueries \cup OrderingQueries :
          last.op = "none" /\ ReviewViewSet_list("bob", query)
    \/ \E movie_id \in 1..3, query \in FilterQueries :
          last.op = "none" /\ ReviewListCreateView_get("bob", movie_id, query)

SpecList == InitList /\ [][NextList]_vars

\* One list request against a store of one movie and up to MaxPageReviews
\* reviews.
InitPage ==
    /\ movies = <<[id |-> 1, title |-> <<"U", "p">>]>>
    /\ \E n \in 0..MaxPageReviews :
          reviews = [i \in 1..n |->
                       [id |-> i, movie |-> 1, user |-> "alice",
                        rating |-> 1 + (i % 5), created_at |-> i]]
    /\ nextMovieId = 2
    /\ nextReviewId = Len(reviews) + 1
    /\ last = Resp("none", Anon, NoId, 0)

NextPage ==
    \/ \E query \in PageQueries :
          last.op = "none" /\ ReviewViewSet_list("bob", query)
    \/ \E movie_id \in 1..2, query \in PageQueries :
          last.op = "none" /\ ReviewListCreateView_get("bob", movie_id, query)

SpecPage == InitPage /\ [][NextPage]_vars

\* ------------------------------------------------------- claims on CRUD
ReviewMutators == {"ReviewViewSet.update", "ReviewViewSet.destroy",
                   "ReviewDetailView.put", "ReviewDetailView.delete"}

MovieControllers == {"MovieListCreateView.get", "MovieListCreateView.post",
                     "MovieDetailView.get", "MovieDetailView.put",
                     "MovieDetailView.delete", "MovieViewSet.list",
                     "MovieViewSet.retrieve", "MovieViewSet.create",
                     "MovieViewSet.update", "MovieViewSet.destroy"}

MovieScopedCreators == {"ReviewListCreateView.post", "CreateMovieReviewView.post"}

\* The row is in the table after the step exactly as it was before.
Kept(row) == \E j \in DOMAIN reviews' : reviews'[j] = row

\* C1: a request over a review endpoint (ReviewViewSet update/destroy,
\* ReviewDetailView put/delete) modifies or deletes a stored review only when
\* its acting user is that review's author.
C1_OnlyAuthorMutates ==
    [][\A i \in DOMAIN reviews :
          (last'.op \in ReviewMutators /\ ~Kept(reviews[i]))
              => last'.actor = reviews[i].user]_vars

\* C2: ReviewDetailView.put and ReviewDetailView.delete on an existing review
\* by an authenticated user who is not its author respond 404.
C2_NonAuthorGets404 ==
    [][(/\ last'.op \in {"ReviewDetailView.put", "ReviewDetailView.delete"}
        /\ last'.actor \in Users
        /\ ReviewExists(last'.id)
        /\ ReviewRow(last'.id).user # last'.actor)
           => last'.status = 404]_vars

\* C3: every movie request of an authenticated non-admin user, through any
\* movie controller, ends 403 and leaves the stored movies unchanged.
C3_MovieCrudAdminOnly ==
    [][(last'.op \in MovieControllers /\ last'.actor \in Users \ Staff)
           => (last'.status = 403 /\ movies' = movies)]_vars

C10_MissingMovieIs404 ==
    [][(/\ \/ /\ last'.op \in {"MovieDetailView.get", "MovieDetailView.put",
                               "MovieDetailView.delete"}
              /\ last'.actor \in Staff
           \/ /\ last'.op \in MovieScopedCreators
              /\ last'.actor \in Users
        /\ ~MovieExists(last'.id))
           => (last'.status = 404 /\ movies' = movies /\ reviews' = reviews)]_vars

\* ------------------------------------------------------ claims on lists
ListHandlers == {"ReviewViewSet.list", "ReviewListCreateView.get"}

\* The reviews a list request ranges over: all of them, or those of the path
\* movie.
InScope(r) == last.op = "ReviewViewSet.list" \/ r.movie = last.id

\* The ids of the stored reviews in scope that satisfy both filters of the
\* last request, in creation order.
ExpectedIds ==
    LET hit(r) ==
            /\ InScope(r)
            /\ r.rating = ExpectedRating(last.query.rating)
            /\ \/ last.query.movie_title = <<>>
               \/ <<MovieRow(r.movie).title, last.query.movie_title>>
                      \in TitleMatchTable
        rows == SelectSeq(reviews, hit)
    IN  [i \in DOMAIN rows |-> rows[i].id]

\* The part of seq that is page n at per rows a page.
Chunk(seq, n, per) ==
    SubSeq(seq, (n - 1) * per + 1,
           IF n * per < Len(seq) THEN n * per ELSE Len(seq))

\* C5: on ReviewViewSet.list a non-empty rating parameter that is not an
\* integer in 1..5 ends the request with a 400 response and no page of
\* reviews.
C5_ViewSetBadRatingIs400 ==
    (/\ last.op = "ReviewViewSet.list"
     /\ last.actor \in Users
     /\ last.query.rating \in BadRatingParams)
        => (last.status = 400 /\ last.results = <<>>)

\* C6: on ReviewListCreateView.get a non-empty rating parameter that is a
\* non-integer text or an integer outside 1..5 ends the request with a 400
\* response and no reviews, whether or not movie_title is given.
C6_ScopedBadRatingIs400 ==
    (/\ last.op = "ReviewListCreateView.get"
     /\ last.actor \in Users
     /\ last.query.rating \in BadRatingParams)
        => (last.status = 400 /\ last.results = <<>> /\ last.count = 0)

\* C6 witness: the movie of the path has reviews, the request carries a
\* movie_title and a rating outside 1..5, and it ended 400.
C6_Witness ==
    /\ last.op = "ReviewListCreateView.get"
    /\ last.status = 400
    /\ last.query.movie_title # <<>>
    /\ last.query.rating \in OutOfRangeRatingParams
    /\ \E i \in DOMAIN reviews : reviews[i].movie = last.id

\* C7: with a rating filter r in 1..5 and an optional movie_title t, a review
\* list answers with the reviews in scope whose rating is r and, when t is
\* given, whose movie's title contains t (letter case ignored): count is
\* their number and the page asked for is that page of them, so the pages
\* together hold exactly them.
C7_FiltersAreExactAndCombine ==
    (/\ last.op \in ListHandlers
     /\ last.actor \in Users
     /\ last.query.rating \in GoodRatingParams)
        => LET per == ExpectedPageSize(last.query.page_size)
               n == ExpectedPage(last.query.page)
           IN  IF n <= LastPage(Len(ExpectedIds), per)
               THEN /\ last.status = 200
                    /\ last.count = Len(ExpectedIds)
                    /\ last.results = Chunk(ExpectedIds, n, per)
               ELSE last.status = 404

\* C7 witness: a list with both filters returned a review while the store
\* held a review of the rating under another title and a review of the title
\* with another rating.
C7_Witness ==
    /\ last.op = "ReviewViewSet.list"
    /\ last.status = 200
    /\ last.query.rating \in GoodRatingParams
    /\ last.query.movie_title # <<>>
    /\ last.results # <<>>
    /\ \E i \in DOMAIN reviews :
          /\ reviews[i].rating = ExpectedRating(last.query.rating)
          /\ <<MovieRow(reviews[i].movie).title, last.query.movie_title>>
                 \notin TitleMatchTable
    /\ \E i \in DOMAIN reviews :
          /\ reviews[i].rating # ExpectedRating(last.query.rating)
          /\ <<MovieRow(reviews[i].movie).title, last.query.movie_title>>
                 \in TitleMatchTable

\* Row a may come before row b under the ordering parameter.
InOrder(a, b, ordering) ==
    CASE ordering = "rating" -> a.rating <= b.rating
      [] ordering = "-rating" -> a.rating >= b.rating
      [] ordering = "-created_at" -> a.created_at >= b.created_at
      [] OTHER -> a.created_at <= b.created_at

\* C8: on ReviewViewSet.list the returned reviews are sorted by the field and
\* direction of the ordering parameter (created_at or rating), and are in
\* creation order without it.
C8_OrderingApplied ==
    (/\ last.op = "ReviewViewSet.list"
     /\ last.actor \in Users
     /\ last.status = 200)
        => \A i, j \in DOMAIN last.results :
              i < j => InOrder(ReviewRow(last.results[i]),
                               ReviewRow(last.results[j]),
                               last.query.ordering)

\* The number of reviews the last list request ranges over (it carries no
\* filter).
ScopeSize == Cardinality({i \in DOMAIN reviews : InScope(reviews[i])})

\* The last request named a page after the last one.
BeyondLastPage ==
    /\ last.op \in ListHandlers
    /\ last.actor \in Users
    /\ last.query.rating = <<>>
    /\ last.query.movie_title = <<>>
    /\ ExpectedPage(last.query.page)
           > LastPage(ScopeSize, ExpectedPageSize(last.query.page_size))

\* A page holds at most page_size rows: 10 by default, the number asked for
\* otherwise, and never more than 100.
PageSizeHonoured ==
    (last.op \in ListHandlers /\ last.actor \in Users)
        => /\ Len(last.results) <= ExpectedPageSize(last.query.page_size)
           /\ Len(last.results) <= 100
           /\ last.query.page_size = <<>> => Len(last.results) <= 10

\* C9 as claimed: a page holds at most page_size rows (default 10, at most
\* 100), and a page beyond the last is an empty page in a non-error envelope.
C9_BeyondLastPageIsEmpty ==
    /\ PageSizeHonoured
    /\ BeyondLastPage =>
          (last.status = 200 /\ last.results = <<>> /\ last.count = ScopeSize)

\* C9 amended: a page holds at most page_size rows (default 10, at most 100),
\* and a page beyond the last ends 404 with no results.
C9_BeyondLastPageIs404 ==
    /\ PageSizeHonoured
    /\ BeyondLastPage => (last.status = 404 /\ last.results = <<>>)

\* C9 witness: 101 reviews, 500 rows a page asked for, page 3 asked for: the
\* pages hold 100 rows, page 2 is the last one, and the request ended 404.
C9_Witness ==
    /\ BeyondLastPage
    /\ Len(reviews) = 101
    /\ last.query.page_size = <<"5", "0", "0">>
    /\ last.query.page = <<"3">>
    /\ last.status = 404

====
